---- MODULE Spec2Model ----
(***************************************************************************)
(* Model of the finance tracker: the single-product ledger and its derived *)
(* figures (App.tsx) and the Google Sheets mirror (googleSheetsService.ts). *)
(*                                                                         *)
(* Numbers are JavaScript numbers restricted to integers (exact in IEEE    *)
(* doubles far beyond the values used here).  A timestamp is an integer    *)
(* number of clock ticks; an ISO date string is the canonical encoding of  *)
(* a timestamp and is modelled by the timestamp itself.                    *)
(***************************************************************************)
EXTENDS Integers, Sequences, FiniteSets, TLC

\* ------------------------------------------------------------------ bounds
MaxTx == 2
MaxExp == 1
MaxQty == 2
MaxClock == 2
MaxRows == 3
MaxEntries == 3

\* ------------------------------------------------------------ JS helpers
NumberLiterals == (-1..MaxQty) \cup {-30, 5, 30, 60, 100, 600, 700, 1200, 1800}

\* parseInt(s, 10) / parseFloat(s) on the strings the forms can hold: a
\* decimal numeral gives its value, anything else NaN.  NaN is not a value
\* of the model: parsesToNaN(s) is isNaN(parseInt(s)), and parseNumber(s) is
\* read only where it is false.
parsesToNaN(s) == ~ \E n \in NumberLiterals : ToString(n) = s

parseNumber(s) == CHOOSE n \in NumberLiterals : ToString(n) = s

\* parseFloat(value) || 0
parseFloatOrZero(s) == IF parsesToNaN(s) THEN 0 ELSE parseNumber(s)

\* Date.parse(s): NaN for an unparseable string, else the timestamp.
DateStrings == {"bad"} \cup {ToString(t) : t \in 0..MaxClock}

dateParsesToNaN(s) == ~ \E t \in 0..MaxClock : ToString(t) = s

Date_parse(s) == CHOOSE t \in 0..MaxClock : ToString(t) = s

\* Array.prototype.filter(x => x.id !== id)
RECURSIVE FilterOutId(_, _)
FilterOutId(s, id) ==
    IF s = <<>> THEN <<>>
    ELSE (IF Head(s).id # id THEN <<Head(s)>> ELSE <<>>) \o FilterOutId(Tail(s), id)

\* Array.prototype.reduce((acc, x) => acc + x.amount, 0), left to right
RECURSIVE SumAmount(_)
SumAmount(s) ==
    IF s = <<>> THEN 0 ELSE SumAmount(SubSeq(s, 1, Len(s) - 1)) + s[Len(s)].amount

\* Array.prototype.reduce((acc, tx) => acc + tx.quantity, 0)
RECURSIVE SumQuantity(_)
SumQuantity(s) ==
    IF s = <<>> THEN 0 ELSE SumQuantity(SubSeq(s, 1, Len(s) - 1)) + s[Len(s)].quantity

\* Array.prototype.sort with a comparator on dates, ascending; the sort is
\* stable, so it is an insertion that goes behind equal dates.
RECURSIVE InsertByDate(_, _)
InsertByDate(x, s) ==
    IF s = <<>> THEN <<x>>
    ELSE IF x.date < Head(s).date THEN <<x>> \o s
    ELSE <<Head(s)>> \o InsertByDate(x, Tail(s))

RECURSIVE SortByDate(_)
SortByDate(s) ==
    IF s = <<>> THEN <<>>
    ELSE InsertByDate(s[Len(s)], SortByDate(SubSeq(s, 1, Len(s) - 1)))

\* ----------------------------------------------------------------- state
VARIABLES
    settings,           \* App: {initialInvestment, watchCost, watchPrice}
    transactions,       \* App: Transaction[]
    expenses,           \* App: Expense[]
    showSaleModal,      \* App
    showExpenseModal,   \* App
    showSettingsModal,  \* App
    editingLog,         \* App: CombinedLogItem | null
    error,              \* the open modal's error message
    now,                \* Date.now()
    lastEdit,           \* history: the item the edit just saved replaced, or null
    apiKey,             \* GoogleSheetsService.apiKey
    spreadsheetId,      \* GoogleSheetsService.spreadsheetId
    remote,             \* the rows of Sheet1 of the spreadsheet
    pc,                 \* per syncAllData call: where it stands
    allEntries,         \* per syncAllData call: its argument
    result,             \* per syncAllData call: what it returns
    failed,             \* history: some remote call of the call failed
    overlapped,         \* history: another call was in flight during the call
    lastStarted,        \* history: the call started last
    lastFinished,       \* history: the call that returned last
    remoteAtStart,      \* history: the remote rows when the call was made
    remoteAtReturn,     \* history: the remote rows when the call returned
    returned,           \* the service operation that returned last, and what it returned
    isSyncing,          \* GoogleSheetsSettings
    connectionStatus,   \* GoogleSheetsSettings: {success, message} | null
    attempt,            \* GoogleSheetsSettings: the call handleSyncAllData awaits
    formData,           \* ProductModal
    errors,             \* ProductModal: Record<string, string>
    saved,              \* ProductModal: what onSave was last called with, or null
    locale,             \* the runtime's default locale
    called,             \* history: the handler called last and what it threw
    registry            \* the product registry: products and their entries

appVars == <<settings, transactions, expenses, showSaleModal, showExpenseModal,
             showSettingsModal, editingLog, error, now, lastEdit>>

syncVars == <<apiKey, spreadsheetId, remote, pc, allEntries, result, failed,
              overlapped, lastStarted, lastFinished, remoteAtStart, remoteAtReturn>>

svcVars == <<returned>>

panelVars == <<isSyncing, connectionStatus, attempt>>

productVars == <<formData, errors, saved>>

extraVars == <<locale, called, registry>>

otherVars == <<svcVars, panelVars, productVars, extraVars>>

vars == <<appVars, syncVars, otherVars>>

null == [type |-> "null"]

\* ------------------------------------------------------- derived figures
\* useMemo at App.tsx 278-284
initialWatches ==
    IF settings.watchCost <= 0 THEN 0
    ELSE settings.initialInvestment \div settings.watchCost

watchesSold ==
    IF settings.watchCost <= 0 THEN 0
    ELSE SumQuantity(transactions)

inventory ==
    IF settings.watchCost <= 0 THEN 0
    ELSE initialWatches - watchesSold

\* useMemo at App.tsx 330-340
totalSales == SumAmount(transactions)
totalExpenses == SumAmount(expenses)
cogs == watchesSold * settings.watchCost
grossProfit == totalSales - cogs
NetProfitDoubleCharge == grossProfit - totalExpenses - 2 * settings.initialInvestment
netProfit == grossProfit - totalExpenses - settings.initialInvestment

\* a / b and r * k on JavaScript numbers, kept exact as a fraction with a
\* positive denominator
Divide(a, b) == [num |-> a, den |-> b]
Times(r, k) == [num |-> r.num * k, den |-> r.den]
Number(n) == [num |-> n, den |-> 1]

roiAsFraction ==
    IF settings.initialInvestment > 0
    THEN Divide(netProfit, settings.initialInvestment)
    ELSE Number(0)

\* roi of financialData (App.tsx 336)
roi ==
    IF settings.initialInvestment > 0
    THEN Times(Divide(netProfit, settings.initialInvestment), 100)
    ELSE Number(0)

\* useMemo at App.tsx 342-358: the points after the 'Start' point
chronologicalLog == SortByDate(transactions \o expenses)

RECURSIVE ChartFrom(_, _, _)

ChartFromCountsExpenses(log, sales, profit) ==
    IF log = <<>> THEN <<>>
    ELSE LET item == Head(log)
             s == sales + item.amount
             p == IF item.type = "sale"
                  THEN profit + (item.amount - item.quantity * settings.watchCost)
                  ELSE profit - item.amount
         IN <<[name |-> item.date, Sales |-> s, Profit |-> p]>>
            \o ChartFrom(Tail(log), s, p)

ChartFrom(log, sales, profit) ==
    IF log = <<>> THEN <<>>
    ELSE LET item == Head(log)
             s == IF item.type = "sale" THEN sales + item.amount ELSE sales
             p == IF item.type = "sale"
                  THEN profit + (item.amount - item.quantity * settings.watchCost)
                  ELSE profit - item.amount
         IN <<[name |-> item.date, Sales |-> s, Profit |-> p]>>
            \o ChartFrom(Tail(log), s, p)

chartData ==
    <<[name |-> "Start", Sales |-> 0, Profit |-> -settings.initialInvestment]>>
    \o ChartFrom(chronologicalLog, 0, -settings.initialInvestment)

\* useMemo at App.tsx 326-328 (as a set: the rows the log table offers)
combinedLog == {transactions[i] : i \in DOMAIN transactions}
               \cup {expenses[i] : i \in DOMAIN expenses}

\* ---------------------------------------------------------------- inputs
QuantityInputs == {"", "abc"} \cup {ToString(n) : n \in -1..MaxQty}
AmountInputs == {"", "0", "100"}
InvestmentInputs == {"", "60", "1800"}
CostInputs == {"-30", "0", "30"}
PriceInputs == {"600", "700"}
DescriptionInputs == {"", "Ads"}

NoModal ==
    /\ ~showSaleModal /\ ~showExpenseModal /\ ~showSettingsModal
    /\ editingLog = null

\* ------------------------------------------------------------------ init
\* App's state with the ledger holding `sales` and `costs`
InitAppHolding(sales, costs) ==
    /\ settings = [initialInvestment |-> 1800, watchCost |-> 30, watchPrice |-> 600]
    /\ transactions = sales
    /\ expenses = costs
    /\ showSaleModal = FALSE
    /\ showExpenseModal = FALSE
    /\ showSettingsModal = FALSE
    /\ editingLog = null
    /\ error = ""
    /\ now = 1
    /\ lastEdit = null

InitApp == InitAppHolding(<<>>, <<>>)

\* --------------------------------------------------------------- actions
\* the clock advances between events
Tick ==
    /\ now < MaxClock
    /\ now' = now + 1
    /\ UNCHANGED <<settings, transactions, expenses, showSaleModal, showExpenseModal,
                   showSettingsModal, editingLog, error, lastEdit>>
    /\ UNCHANGED <<syncVars, otherVars>>

\* 'Record a Sale' button, disabled when inventory <= 0
OpenSaleModal ==
    /\ NoModal
    /\ inventory > 0
    /\ showSaleModal' = TRUE
    /\ lastEdit' = null
    /\ error' = ""
    /\ UNCHANGED <<settings, transactions, expenses, showExpenseModal,
                   showSettingsModal, editingLog, now>>
    /\ UNCHANGED <<syncVars, otherVars>>

OpenExpenseModal ==
    /\ NoModal
    /\ showExpenseModal' = TRUE
    /\ lastEdit' = null
    /\ error' = ""
    /\ UNCHANGED <<settings, transactions, expenses, showSaleModal,
                   showSettingsModal, editingLog, now>>
    /\ UNCHANGED <<syncVars, otherVars>>

OpenSettingsModal ==
    /\ NoModal
    /\ showSettingsModal' = TRUE
    /\ lastEdit' = null
    /\ error' = ""
    /\ UNCHANGED <<settings, transactions, expenses, showSaleModal,
                   showExpenseModal, editingLog, now>>
    /\ UNCHANGED <<syncVars, otherVars>>

\* the pencil button of a log row
setEditingLog(item) ==
    /\ NoModal
    /\ editingLog' = item
    /\ lastEdit' = null
    /\ error' = ""
    /\ UNCHANGED <<settings, transactions, expenses, showSaleModal,
                   showExpenseModal, showSettingsModal, now>>
    /\ UNCHANGED <<syncVars, otherVars>>

\* the X button or a click on the overlay of whichever modal is open
CloseModal ==
    /\ ~NoModal
    /\ showSaleModal' = FALSE
    /\ showExpenseModal' = FALSE
    /\ showSettingsModal' = FALSE
    /\ editingLog' = null
    /\ error' = ""
    /\ UNCHANGED <<settings, transactions, expenses, now, lastEdit>>
    /\ UNCHANGED <<syncVars, otherVars>>

handleAddSaleAtCost(sale) ==
    Append(transactions,
           [id |-> <<"sale", now>>, date |-> now,
            amount |-> sale.quantity * settings.watchCost, type |-> "sale",
            quantity |-> sale.quantity, description |-> sale.description])

\* handleAddSale (App.tsx 286-295): the new transactions array
handleAddSale(sale) ==
    Append(transactions,
           [id |-> <<"sale", now>>, date |-> now,
            amount |-> sale.quantity * settings.watchPrice, type |-> "sale",
            quantity |-> sale.quantity, description |-> sale.description])

SaleSubmitOutcomeNoStockCheck(quantity) ==
    LET numQuantity == parseNumber(quantity) IN
    IF parsesToNaN(quantity) \/ numQuantity <= 0 THEN "invalid" ELSE "ok"

\* the branch SaleModal.handleSubmit takes (App.tsx 109-120)
SaleSubmitOutcome(quantity) ==
    LET numQuantity == parseNumber(quantity) IN
    IF parsesToNaN(quantity) \/ numQuantity <= 0 THEN "invalid"
    ELSE IF numQuantity > inventory THEN "nostock"
    ELSE "ok"

SaleModalSubmit(quantity) ==
    /\ showSaleModal
    /\ LET outcome == SaleSubmitOutcome(quantity) IN
       IF outcome = "invalid"
       THEN /\ error' = "Please enter a valid quantity."
            /\ UNCHANGED <<transactions, showSaleModal>>
       ELSE IF outcome = "nostock"
       THEN /\ error' = "Not enough inventory."
            /\ UNCHANGED <<transactions, showSaleModal>>
       ELSE /\ Len(transactions) < MaxTx
            /\ transactions' = handleAddSale([quantity |-> parseNumber(quantity),
                                              description |-> "Watch Sale"])
            /\ showSaleModal' = FALSE
            /\ UNCHANGED error
    /\ UNCHANGED <<settings, expenses, showExpenseModal, showSettingsModal,
                   editingLog, now, lastEdit>>
    /\ UNCHANGED <<syncVars, otherVars>>

\* handleAddExpense (App.tsx 297-305)
handleAddExpense(expense) ==
    Append(expenses,
           [id |-> <<"exp", now>>, date |-> now, amount |-> expense.amount,
            type |-> "expense", description |-> expense.description])

\* ExpenseModal.handleSubmit (App.tsx 153-160)
ExpenseModalSubmit(description, amount) ==
    /\ showExpenseModal
    /\ LET numAmount == parseNumber(amount) IN
       IF description = ""
       THEN /\ error' = "Description cannot be empty."
            /\ UNCHANGED <<expenses, showExpenseModal>>
       ELSE IF parsesToNaN(amount) \/ numAmount <= 0
       THEN /\ error' = "Please enter a valid positive amount."
            /\ UNCHANGED <<expenses, showExpenseModal>>
       ELSE /\ Len(expenses) < MaxExp
            /\ expenses' = handleAddExpense([description |-> description,
                                             amount |-> numAmount])
            /\ showExpenseModal' = FALSE
            /\ UNCHANGED error
    /\ UNCHANGED <<settings, transactions, showSaleModal, showSettingsModal,
                   editingLog, now, lastEdit>>
    /\ UNCHANGED <<syncVars, otherVars>>

\* SettingsModal.handleChange (App.tsx 185-187): the form state after a field
\* is typed into
handleChange(tempSettings, key, value) ==
    [tempSettings EXCEPT ![key] = parseFloatOrZero(value)]

\* the form state of SettingsModal when 'Save Settings' is clicked: it starts
\* as the current settings (App.tsx 183) and the three fields were typed into
TypedSettings(investment, cost, price) ==
    handleChange(handleChange(handleChange(settings,
        "initialInvestment", investment), "watchCost", cost), "watchPrice", price)

SettingsSaveRepricesSales(tempSettings) ==
    /\ showSettingsModal
    /\ settings' = tempSettings
    /\ transactions' = [i \in DOMAIN transactions |->
            [transactions[i] EXCEPT
                !.amount = transactions[i].quantity * tempSettings.watchPrice]]
    /\ showSettingsModal' = FALSE
    /\ lastEdit' = null
    /\ UNCHANGED <<expenses, showSaleModal, showExpenseModal, editingLog, error, now>>
    /\ UNCHANGED <<syncVars, otherVars>>

\* 'Save Settings': onSave(tempSettings); onClose()  (App.tsx 201, 364)
SettingsSave(tempSettings) ==
    /\ showSettingsModal
    /\ settings' = tempSettings
    /\ showSettingsModal' = FALSE
    /\ lastEdit' = null
    /\ UNCHANGED <<transactions, expenses, showSaleModal, showExpenseModal,
                   editingLog, error, now>>
    /\ UNCHANGED <<syncVars, otherVars>>

\* handleUpdateLog (App.tsx 307-314): the arrays after the update
MapReplace(s, updatedItem) ==
    [i \in DOMAIN s |-> IF s[i].id = updatedItem.id THEN updatedItem ELSE s[i]]

EditedSaleStalePrice(logItem, newDate, description, numQuantity) ==
    [logItem EXCEPT !.date = newDate, !.description = description,
                    !.quantity = numQuantity,
                    !.amount = numQuantity * (logItem.amount \div logItem.quantity)]

\* the item EditLogModal.handleSubmit passes to onSave for a sale (App.tsx 223)
EditedSale(logItem, newDate, description, numQuantity) ==
    [logItem EXCEPT !.date = newDate, !.description = description,
                    !.quantity = numQuantity,
                    !.amount = numQuantity * settings.watchPrice]

\* ... and for an expense (App.tsx 228)
EditedExpense(logItem, newDate, description, numAmount) ==
    [logItem EXCEPT !.date = newDate, !.description = description,
                    !.amount = numAmount]

\* EditLogModal.handleSubmit (App.tsx 214-231) with handleUpdateLog
EditLogSubmit(date, description, quantity, amount) ==
    /\ editingLog # null
    /\ LET parsed == Date_parse(date)
           numQuantity == parseNumber(quantity)
           numAmount == parseNumber(amount)
       IN
       IF dateParsesToNaN(date) \/ parsed = 0      \* !Date.parse(date)
       THEN /\ error' = "Invalid date format."
            /\ UNCHANGED <<transactions, expenses, editingLog, lastEdit>>
       ELSE IF editingLog.type = "sale"
       THEN IF parsesToNaN(quantity) \/ numQuantity <= 0
            THEN /\ error' = "Please enter a valid quantity."
                 /\ UNCHANGED <<transactions, expenses, editingLog, lastEdit>>
            ELSE /\ transactions' =
                        MapReplace(transactions,
                                   EditedSale(editingLog, parsed, description, numQuantity))
                 /\ editingLog' = null
                 /\ lastEdit' = editingLog
                 /\ error' = ""
                 /\ UNCHANGED expenses
       ELSE IF parsesToNaN(amount) \/ numAmount <= 0
            THEN /\ error' = "Please enter a valid positive amount."
                 /\ UNCHANGED <<transactions, expenses, editingLog, lastEdit>>
            ELSE IF description = ""
            THEN /\ error' = "Description cannot be empty."
                 /\ UNCHANGED <<transactions, expenses, editingLog, lastEdit>>
            ELSE /\ expenses' =
                        MapReplace(expenses,
                                   EditedExpense(editingLog, parsed, description, numAmount))
                 /\ editingLog' = null
                 /\ lastEdit' = editingLog
                 /\ error' = ""
                 /\ UNCHANGED transactions
    /\ UNCHANGED <<settings, showSaleModal, showExpenseModal, showSettingsModal,
                   now>>
    /\ UNCHANGED <<syncVars, otherVars>>

\* handleDeleteLog (App.tsx 316-324)
handleDeleteLog(logItem, confirmed) ==
    /\ NoModal
    /\ IF confirmed
       THEN IF logItem.type = "sale"
            THEN /\ transactions' = FilterOutId(transactions, logItem.id)
                 /\ UNCHANGED expenses
            ELSE /\ expenses' = FilterOutId(expenses, logItem.id)
                 /\ UNCHANGED transactions
       ELSE UNCHANGED <<transactions, expenses>>
    /\ lastEdit' = null
    /\ UNCHANGED <<settings, showSaleModal, showExpenseModal, showSettingsModal,
                   editingLog, error, now>>
    /\ UNCHANGED <<syncVars, svcVars, panelVars, productVars, locale, registry>>

\* the trash button of a log row
DeleteClicked(logItem, confirmed) ==
    /\ handleDeleteLog(logItem, confirmed)
    /\ UNCHANGED called

\* a call of handler `op` for the id `id` ended by throwing `threw` ("none":
\* it returned)
Called(op, id, threw) == [op |-> op, id |-> id, threw |-> threw]

\* handleUpdateLog (App.tsx 307-314) called with any item, as
\* EditLogModal's onSave or by any other caller: it returns normally
handleUpdateLog(updatedItem) ==
    /\ IF updatedItem.type = "sale"
       THEN /\ transactions' = MapReplace(transactions, updatedItem)
            /\ UNCHANGED expenses
       ELSE /\ expenses' = MapReplace(expenses, updatedItem)
            /\ UNCHANGED transactions
    /\ editingLog' = null
    /\ lastEdit' = null
    /\ called' = Called("handleUpdateLog", updatedItem.id, "none")
    /\ UNCHANGED <<settings, showSaleModal, showExpenseModal, showSettingsModal,
                   error, now>>
    /\ UNCHANGED <<syncVars, svcVars, panelVars, productVars, locale, registry>>

\* a sale as handleAddSale records it at clock value t at the default price,
\* and an expense as handleAddExpense records it
RecordedSale(t, quantity) ==
    [id |-> <<"sale", t>>, date |-> t, amount |-> quantity * 600, type |-> "sale",
     quantity |-> quantity, description |-> "Watch Sale"]

RecordedExpense(t, amount) ==
    [id |-> <<"exp", t>>, date |-> t, amount |-> amount, type |-> "expense",
     description |-> "Ads"]

\* the items the handlers are called with: entries as a caller holds them,
\* among them ones whose id is not, or no longer, in the ledger
HeldItems ==
    {[RecordedSale(t, q) EXCEPT !.date = d] : t \in 0..MaxClock, q \in 1..MaxQty,
                                              d \in 1..MaxClock}
    \cup {[RecordedExpense(t, 100) EXCEPT !.date = d] : t \in 0..MaxClock,
                                                        d \in 1..MaxClock}

\* ledgers recorded before the clock value the model starts at
HeldSales == {<<>>, <<RecordedSale(1, 2)>>, <<RecordedSale(0, 1), RecordedSale(1, 2)>>}
HeldExpenses == {<<>>, <<RecordedExpense(1, 100)>>}

\* ------------------------------------------------- Google Sheets mirror
PLACEHOLDER_GOOGLE_SHEETS_API_KEY == "PLACEHOLDER_GOOGLE_SHEETS_API_KEY"
PLACEHOLDER_SPREADSHEET_ID == "PLACEHOLDER_SPREADSHEET_ID"

ApiKeys == {"", PLACEHOLDER_GOOGLE_SHEETS_API_KEY, "key"}
SpreadsheetIds == {"", PLACEHOLDER_SPREADSHEET_ID, "sheet"}

isConfiguredNonEmptyOnly ==
    apiKey # "" /\ spreadsheetId # ""

\* GoogleSheetsService.isConfigured
isConfigured ==
    /\ apiKey # "" /\ spreadsheetId # ""
    /\ apiKey # PLACEHOLDER_GOOGLE_SHEETS_API_KEY
    /\ spreadsheetId # PLACEHOLDER_SPREADSHEET_ID

headers == <<"ID", "Date", "Type", "Amount", "Quantity", "Description",
             "Product ID", "Product Name">>

\* the default locales the page can run under
Locales == {"en-US", "de-DE"}

\* new Date(date).toLocaleString() under a default locale: "1/2/2024,
\* 3:04:05 PM" under en-US, "2.1.2024, 15:04:05" under de-DE
toLocaleStringIn(loc, date) ==
    (IF loc = "en-US" THEN "L" ELSE "D") \o ToString(date)

\* new Date(entry.date).toLocaleString(): the runtime locale's rendering of
\* the timestamp
toLocaleString(date) == toLocaleStringIn(locale, date)

\* GoogleSheetsService.logEntryToRow with the page running under `loc`
logEntryToRowIn(loc, entry) ==
    <<entry.id, toLocaleStringIn(loc, entry.date), entry.type,
      ToString(entry.amount),
      IF entry.type = "sale" THEN ToString(entry.quantity) ELSE "",
      entry.description, entry.productId, entry.productName>>

\* GoogleSheetsService.logEntryToRow
logEntryToRow(entry) == logEntryToRowIn(locale, entry)

\* allEntries.map(entry => this.logEntryToRow(entry))
RowsOf(entries) == [i \in DOMAIN entries |-> logEntryToRow(entries[i])]

\* the entries handed to the service
SaleEntry == [id |-> "sale-1", date |-> 1, amount |-> 1200, type |-> "sale",
              quantity |-> 2, description |-> "Watch Sale",
              productId |-> "p1", productName |-> "Watch"]
ExpenseEntry == [id |-> "exp-2", date |-> 2, amount |-> 100, type |-> "expense",
                 description |-> "Ads", productId |-> "p1", productName |-> "Watch"]

EntryLists == {<<>>, <<SaleEntry>>, <<ExpenseEntry>>, <<ExpenseEntry, SaleEntry>>}

Calls == {"A", "B"}

\* what a fetch can come to: an OK response, a non-OK response, a rejection
Outcomes == {"ok", "notok", "neterr"}

InFlight(c) == pc[c] \in {"clear", "header", "rows", "ret"}

\* the service is constructed from the environment (40-47), the spreadsheet
\* holding the rows of `sheet`
InitServiceOn(key, id, sheet) ==
    /\ apiKey = key
    /\ spreadsheetId = id
    /\ remote = sheet
    /\ pc = [c \in Calls |-> "idle"]
    /\ allEntries = [c \in Calls |-> <<>>]
    /\ result = [c \in Calls |-> "none"]
    /\ failed = [c \in Calls |-> FALSE]
    /\ overlapped = [c \in Calls |-> FALSE]
    /\ lastStarted = "none"
    /\ lastFinished = "none"
    /\ remoteAtStart = [c \in Calls |-> <<>>]
    /\ remoteAtReturn = [c \in Calls |-> <<>>]

InitService(key, id) == InitServiceOn(key, id, <<>>)

\* where syncAllData goes once initializeSpreadsheet has returned (its result
\* is not looked at): the row write, or straight to `return true`
AfterInitialize(c) ==
    IF Len(allEntries[c]) > 0
    THEN /\ pc' = [pc EXCEPT ![c] = "rows"]
         /\ UNCHANGED result
    ELSE /\ pc' = [pc EXCEPT ![c] = "ret"]
         /\ result' = [result EXCEPT ![c] = "success"]

\* syncAllData is called (googleSheetsService.ts 143-151): not configured, it
\* returns false at once; configured, it enters initializeSpreadsheet and
\* issues the clear
syncAllData(c, entries) ==
    /\ pc[c] = "idle"
    /\ allEntries' = [allEntries EXCEPT ![c] = entries]
    /\ lastStarted' = c
    /\ remoteAtStart' = [remoteAtStart EXCEPT ![c] = remote]
    /\ IF isConfigured
       THEN /\ pc' = [pc EXCEPT ![c] = "clear"]
            /\ overlapped' = [d \in Calls |->
                    IF \E o \in Calls \ {c} : InFlight(o) THEN (d = c \/ InFlight(d) \/ overlapped[d])
                    ELSE overlapped[d]]
            /\ UNCHANGED <<result, lastFinished, remoteAtReturn>>
       ELSE /\ pc' = [pc EXCEPT ![c] = "done"]
            /\ result' = [result EXCEPT ![c] = "failure"]
            /\ lastFinished' = c
            /\ remoteAtReturn' = [remoteAtReturn EXCEPT ![c] = remote]
            /\ UNCHANGED overlapped
    /\ UNCHANGED <<apiKey, spreadsheetId, remote, failed>>

\* a caller other than the settings panel calls syncAllData
StartSync(c, entries) ==
    /\ syncAllData(c, entries)
    /\ UNCHANGED <<appVars, otherVars>>

\* clearSheet (80-89) inside initializeSpreadsheet (62-76): the response is
\* not inspected, so only a rejected fetch throws, into initializeSpreadsheet's
\* catch, which skips the header write
ClearSheet(c, outcome) ==
    /\ pc[c] = "clear"
    /\ remote' = IF outcome = "ok" THEN <<>> ELSE remote
    /\ failed' = [failed EXCEPT ![c] = @ \/ outcome # "ok"]
    /\ IF outcome = "neterr"
       THEN AfterInitialize(c)
       ELSE /\ pc' = [pc EXCEPT ![c] = "header"]
            /\ UNCHANGED result
    /\ UNCHANGED <<apiKey, spreadsheetId, allEntries, overlapped, lastStarted,
                   lastFinished, remoteAtStart, remoteAtReturn>>
    /\ UNCHANGED <<appVars, otherVars>>

\* appendRows([headers]) (92-108) inside initializeSpreadsheet: a rejection or a
\* non-OK response throws into initializeSpreadsheet's catch
AppendHeaders(c, outcome) ==
    /\ pc[c] = "header"
    /\ remote' = IF outcome = "ok" THEN Append(remote, headers) ELSE remote
    /\ failed' = [failed EXCEPT ![c] = @ \/ outcome # "ok"]
    /\ AfterInitialize(c)
    /\ UNCHANGED <<apiKey, spreadsheetId, allEntries, overlapped, lastStarted,
                   lastFinished, remoteAtStart, remoteAtReturn>>
    /\ UNCHANGED <<appVars, otherVars>>

\* appendRows(rows) in syncAllData (153-164): a failure throws into
\* syncAllData's catch, which returns false
AppendRows(c, outcome) ==
    /\ pc[c] = "rows"
    /\ remote' = IF outcome = "ok" THEN remote \o RowsOf(allEntries[c]) ELSE remote
    /\ failed' = [failed EXCEPT ![c] = @ \/ outcome # "ok"]
    /\ pc' = [pc EXCEPT ![c] = "ret"]
    /\ result' = [result EXCEPT ![c] = IF outcome = "ok" THEN "success" ELSE "failure"]
    /\ UNCHANGED <<apiKey, spreadsheetId, allEntries, overlapped, lastStarted,
                   lastFinished, remoteAtStart, remoteAtReturn>>
    /\ UNCHANGED <<appVars, otherVars>>

\* the last response reaches the caller and syncAllData's promise settles
syncAllDataReturns(c) ==
    /\ pc[c] = "ret"
    /\ pc' = [pc EXCEPT ![c] = "done"]
    /\ lastFinished' = c
    /\ remoteAtReturn' = [remoteAtReturn EXCEPT ![c] = remote]
    /\ UNCHANGED <<apiKey, spreadsheetId, remote, allEntries, result, failed,
                   overlapped, lastStarted, remoteAtStart>>

\* ... to a caller other than the settings panel
Return(c) ==
    /\ syncAllDataReturns(c)
    /\ UNCHANGED <<appVars, otherVars>>

\* the page is closed or the process dies: every call in flight stops
Crash ==
    /\ \E c \in Calls : InFlight(c)
    /\ pc' = [c \in Calls |-> IF InFlight(c) THEN "crashed" ELSE pc[c]]
    /\ UNCHANGED <<apiKey, spreadsheetId, remote, allEntries, result, failed,
                   overlapped, lastStarted, lastFinished, remoteAtStart,
                   remoteAtReturn>>
    /\ UNCHANGED <<appVars, otherVars>>


\* ------------------------------------- the other operations of the service
Operations == {"initializeSpreadsheet", "addLogEntry", "readAllData", "testConnection"}

\* what a call of `op` returned, with the number of requests it sent to the
\* spreadsheet: `success` is the boolean of initializeSpreadsheet and
\* addLogEntry, `success` and `message` are the object of testConnection,
\* `entries` is the array of readAllData; what a result does not have is left
\* FALSE, "" or <<>>
Returns(op, success, message, entries, requests) ==
    [op |-> op, fetched |-> requests, success |-> success, message |-> message,
     entries |-> entries]

\* no operation has returned yet
NotCalled == Returns("none", FALSE, "", <<>>, 0)

\* a row as syncAllData writes it under en-US, and the row of a sale with its
\* Date cell in a form Date cannot parse (another locale's rendering, or
\* typed by hand)
GoodRow == logEntryToRowIn("en-US", ExpenseEntry)
BadDateRow == <<"sale-1", "bad", "sale", "1200", "2", "Watch Sale", "p1", "Watch">>

\* the spreadsheets the service is pointed at
Sheets == {<<>>, <<headers, GoodRow>>, <<headers, BadDateRow, GoodRow>>}

\* new Date(date) is an Invalid Date: the date parser reads the en-US
\* rendering of a timestamp and no other locale's
isInvalidDate(date) == ~ \E t \in 0..MaxClock : toLocaleStringIn("en-US", t) = date

\* new Date(date).toISOString() for a valid date (it throws a RangeError for
\* an Invalid Date)
toISOString(date) == CHOOSE t \in 0..MaxClock : toLocaleStringIn("en-US", t) = date

\* parseInt(quantity) || 1
parseIntOrOne(s) ==
    IF parsesToNaN(s) \/ parseNumber(s) = 0 THEN 1 ELSE parseNumber(s)

\* the callback of dataRows.map in readAllData (188-212); `random` stands for
\* the row's draw of Math.random()
rowToEntry(row, random) ==
    LET baseEntry ==
            [id |-> IF row[1] # "" THEN row[1]
                    ELSE "imported-" \o ToString(now) \o "-" \o ToString(random),
             date |-> toISOString(row[2]),
             amount |-> parseFloatOrZero(row[4]),
             description |-> row[6],
             productId |-> row[7],
             productName |-> row[8]]
    IN IF row[3] = "sale"
       THEN [id |-> baseEntry.id, date |-> baseEntry.date,
             amount |-> baseEntry.amount, description |-> baseEntry.description,
             productId |-> baseEntry.productId,
             productName |-> baseEntry.productName,
             type |-> "sale", quantity |-> parseIntOrOne(row[5])]
       ELSE [id |-> baseEntry.id, date |-> baseEntry.date,
             amount |-> baseEntry.amount, description |-> baseEntry.description,
             productId |-> baseEntry.productId,
             productName |-> baseEntry.productName,
             type |-> "expense"]

\* rows.slice(1)
slice1(rows) == IF rows = <<>> THEN <<>> ELSE Tail(rows)

\* what readAllData returns for the rows the spreadsheet answered with: the
\* RangeError of an unparseable Date cell is thrown inside the try block, and
\* the catch returns []
entriesOf(rows) ==
    LET dataRows == slice1(rows) IN
    IF \E i \in DOMAIN dataRows : isInvalidDate(dataRows[i][2])
    THEN <<>>
    ELSE [i \in DOMAIN dataRows |-> rowToEntry(dataRows[i], i)]

readAllDataOverwritesLedger(outcome) ==
    LET value == IF ~isConfigured \/ outcome # "ok" THEN <<>> ELSE entriesOf(remote) IN
    /\ returned' =
            Returns("readAllData", FALSE, "", value, IF isConfigured THEN 1 ELSE 0)
    /\ transactions' = SelectSeq(value, LAMBDA e : e.type = "sale")
    /\ expenses' = SelectSeq(value, LAMBDA e : e.type = "expense")
    /\ UNCHANGED <<settings, showSaleModal, showExpenseModal, showSettingsModal,
                   editingLog, error, now, lastEdit>>
    /\ UNCHANGED <<extraVars, syncVars, panelVars, productVars>>

\* readAllData (168-220)
readAllData(outcome) ==
    /\ returned' =
            IF ~isConfigured THEN Returns("readAllData", FALSE, "", <<>>, 0)
            ELSE IF outcome # "ok" THEN Returns("readAllData", FALSE, "", <<>>, 1)
            ELSE Returns("readAllData", FALSE, "", entriesOf(remote), 1)
    /\ UNCHANGED <<appVars, extraVars, syncVars, panelVars, productVars>>

SheetTitle == "Finance"

NotConfiguredMessage ==
    "Google Sheets not configured. Please set your API key and Spreadsheet ID."

\* the {success, message} testConnection resolves to (223-253)
connectionResult(outcome) ==
    IF ~isConfigured THEN [success |-> FALSE, message |-> NotConfiguredMessage]
    ELSE IF outcome = "ok"
    THEN [success |-> TRUE, message |-> "Connected to spreadsheet: " \o SheetTitle]
    ELSE IF outcome = "notok"
    THEN [success |-> FALSE, message |-> "Failed to connect: 403 Forbidden"]
    ELSE [success |-> FALSE, message |-> "Connection error: Failed to fetch"]

testConnectionClearsSheet(outcome) ==
    /\ returned' =
            Returns("testConnection", connectionResult(outcome).success,
                    connectionResult(outcome).message, <<>>,
                    IF isConfigured THEN 1 ELSE 0)
    /\ remote' = IF isConfigured /\ outcome = "ok" THEN <<>> ELSE remote
    /\ UNCHANGED <<apiKey, spreadsheetId, pc, allEntries, result, failed,
                   overlapped, lastStarted, lastFinished, remoteAtStart,
                   remoteAtReturn>>
    /\ UNCHANGED <<appVars, extraVars, panelVars, productVars>>

\* testConnection (223-253): one GET of the spreadsheet's metadata
testConnection(outcome) ==
    /\ returned' =
            Returns("testConnection", connectionResult(outcome).success,
                    connectionResult(outcome).message, <<>>,
                    IF isConfigured THEN 1 ELSE 0)
    /\ UNCHANGED <<appVars, extraVars, syncVars, panelVars, productVars>>

\* addLogEntry (125-140): one append of the entry's row
addLogEntry(entry, outcome) ==
    /\ isConfigured => Len(remote) < MaxRows
    /\ IF ~isConfigured
       THEN /\ returned' = Returns("addLogEntry", FALSE, "", <<>>, 0)
            /\ UNCHANGED remote
       ELSE /\ returned' =
                    Returns("addLogEntry", outcome = "ok", "", <<>>, 1)
            /\ remote' = IF outcome = "ok"
                         THEN remote \o <<logEntryToRow(entry)>>
                         ELSE remote
    /\ UNCHANGED <<apiKey, spreadsheetId, pc, allEntries, result, failed,
                   overlapped, lastStarted, lastFinished, remoteAtStart,
                   remoteAtReturn>>
    /\ UNCHANGED <<appVars, extraVars, panelVars, productVars>>

\* initializeSpreadsheet (56-77) called on its own: the clear, whose response
\* is not inspected, then the header write; a rejected clear skips the header
\* write
initializeSpreadsheet(clearOutcome, appendOutcome) ==
    /\ isConfigured => Len(remote) < MaxRows
    /\ IF ~isConfigured
       THEN /\ returned' =
                    Returns("initializeSpreadsheet", FALSE, "", <<>>, 0)
            /\ UNCHANGED remote
       ELSE IF clearOutcome = "neterr"
       THEN /\ returned' =
                    Returns("initializeSpreadsheet", FALSE, "", <<>>, 1)
            /\ UNCHANGED remote
       ELSE LET cleared == IF clearOutcome = "ok" THEN <<>> ELSE remote IN
            /\ returned' =
                    Returns("initializeSpreadsheet", appendOutcome = "ok", "", <<>>, 2)
            /\ remote' = IF appendOutcome = "ok"
                         THEN Append(cleared, headers)
                         ELSE cleared
    /\ UNCHANGED <<apiKey, spreadsheetId, pc, allEntries, result, failed,
                   overlapped, lastStarted, lastFinished, remoteAtStart,
                   remoteAtReturn>>
    /\ UNCHANGED <<appVars, extraVars, panelVars, productVars>>

InitServiceResults == returned = NotCalled

\* ---------------------------------- GoogleSheetsSettings: 'Export All Data'
\* the onSyncData prop: the parent hands the ledger to the service's
\* syncAllData
onSyncData(c, entries) == syncAllData(c, entries)

\* handleSyncAllData (96-100), up to its await; the button is rendered only
\* when the service is configured (256) and is disabled while isSyncing (269)
handleSyncAllData(c, entries) ==
    /\ isConfigured
    /\ ~isSyncing
    /\ isSyncing' = TRUE
    /\ attempt' = c
    /\ onSyncData(c, entries)
    /\ UNCHANGED connectionStatus
    /\ UNCHANGED <<appVars, extraVars, svcVars, productVars>>

\* handleSyncAllData (100-112) from its await on: onSyncData's promise
\* resolves (syncAllData catches every error, so it never rejects and the
\* catch at 105-109 is not entered), whatever syncAllData returned
handleSyncAllDataResumes(c) ==
    /\ isSyncing
    /\ attempt = c
    /\ syncAllDataReturns(c)
    /\ connectionStatus' = [success |-> TRUE,
                            message |-> "All data synced successfully to Google Sheets!"]
    /\ isSyncing' = FALSE
    /\ UNCHANGED attempt
    /\ UNCHANGED <<appVars, extraVars, svcVars, productVars>>

InitPanel ==
    /\ isSyncing = FALSE
    /\ connectionStatus = null
    /\ attempt = "none"

\* ---------------------------------------------------------- ProductModal
\* the financial fields of the form (color and icon carry no rule)
Fields == {"name", "description", "initialInvestment", "unitCost",
           "sellingPrice", "initialUnits"}

NameInputs == {"", " ", "Watch"}
ProductDescriptionInputs == {"", "Luxury"}
ProductInvestmentInputs == {"-1", "", "60"}
UnitCostInputs == {"", "30"}
SellingPriceInputs == {"", "30", "600"}
InitialUnitsInputs == {"", "2", "5"}

\* parseInt(value) || 0 on the numerals the units field can hold
parseIntOrZero(s) == IF parsesToNaN(s) THEN 0 ELSE parseNumber(s)

\* String.prototype.trim on the strings the text fields can hold
trim(s) == IF s = " " THEN "" ELSE s

\* useState at ProductModal.tsx 84-93: the form's first state for the product
\* prop, null when a product is created
useStateFormData(product) ==
    IF product = null
    THEN [name |-> "", description |-> "", initialInvestment |-> 0,
          unitCost |-> 0, sellingPrice |-> 0, initialUnits |-> 0]
    ELSE [name |-> product.name, description |-> product.description,
          initialInvestment |-> product.initialInvestment,
          unitCost |-> product.unitCost,
          sellingPrice |-> product.sellingPrice,
          initialUnits |->
              product.initialInvestment
                  \div (IF product.unitCost = 0 THEN 1 ELSE product.unitCost)]

\* useState at ProductModal.tsx 84-95, creating a product
InitProductModal ==
    /\ formData = useStateFormData(null)
    /\ errors = <<>>
    /\ saved = null

\* the modal is mounted again on the product saved last, to edit it
ProductModal_open ==
    /\ saved # null
    /\ formData' = useStateFormData(saved)
    /\ errors' = <<>>
    /\ UNCHANGED saved
    /\ UNCHANGED <<appVars, extraVars, syncVars, svcVars, panelVars>>

\* handleChange (108-113)
ProductModal_handleChange(field, value) ==
    /\ formData' = [formData EXCEPT ![field] = value]
    /\ errors' = IF field \in DOMAIN errors /\ errors[field] # ""
                 THEN [errors EXCEPT ![field] = ""]
                 ELSE errors
    /\ UNCHANGED saved
    /\ UNCHANGED <<appVars, extraVars, syncVars, svcVars, panelVars>>

\* the message validateForm leaves under a key of newErrors
errorMessage(field) ==
    IF field = "name" THEN "Product name is required"
    ELSE IF field = "description" THEN "Description is required"
    ELSE IF field = "initialInvestment"
    THEN "Initial investment must be greater than 0"
    ELSE IF field = "unitCost" THEN "Unit cost must be greater than 0"
    ELSE IF field = "sellingPrice"
    THEN (IF formData.sellingPrice <= formData.unitCost
          THEN "Selling price must be higher than unit cost"
          ELSE "Selling price must be greater than 0")
    ELSE "Initial units must be greater than 0"

\* the test validateForm makes for each key
fails(field) ==
    IF field = "name" THEN trim(formData.name) = ""
    ELSE IF field = "description" THEN trim(formData.description) = ""
    ELSE IF field = "initialInvestment" THEN formData.initialInvestment <= 0
    ELSE IF field = "unitCost" THEN formData.unitCost <= 0
    ELSE IF field = "sellingPrice"
    THEN formData.sellingPrice <= 0 \/ formData.sellingPrice <= formData.unitCost
    ELSE formData.initialUnits <= 0

validateFormFirstErrorOnly ==
    IF fails("name") THEN [f \in {"name"} |-> errorMessage(f)]
    ELSE IF fails("description") THEN [f \in {"description"} |-> errorMessage(f)]
    ELSE IF fails("initialInvestment")
    THEN [f \in {"initialInvestment"} |-> errorMessage(f)]
    ELSE IF fails("unitCost") THEN [f \in {"unitCost"} |-> errorMessage(f)]
    ELSE IF fails("sellingPrice") THEN [f \in {"sellingPrice"} |-> errorMessage(f)]
    ELSE IF fails("initialUnits") THEN [f \in {"initialUnits"} |-> errorMessage(f)]
    ELSE <<>>

\* validateForm (115-148): newErrors
validateForm ==
    [f \in {g \in Fields : fails(g)} |-> errorMessage(f)]

\* handleSubmit (150-156)
ProductModal_handleSubmit ==
    /\ errors' = validateForm
    /\ IF DOMAIN validateForm = {}
       THEN saved' = formData
       ELSE UNCHANGED saved
    /\ UNCHANGED formData
    /\ UNCHANGED <<appVars, extraVars, syncVars, svcVars, panelVars>>

\* ------------------------------------------------------ product registry
\* PRODUCT, TRANSACTION and EXPENSE of the data model: the products by id and
\* the entries of all products, each with the productId of its owner
ProductIds == {"p1", "p2", "p3"}

\* createProduct: the product gets an id never issued before
createProduct(id) ==
    /\ id \notin registry.issued
    /\ registry' = [registry EXCEPT !.products = @ \cup {id},
                                    !.issued = @ \cup {id}]
    /\ called' = Called("createProduct", <<id, 0>>, "none")
    /\ UNCHANGED <<appVars, syncVars, svcVars, panelVars, productVars, locale>>

\* addEntry: NotFoundError for a product that does not exist
addEntry(productId, type, date) ==
    /\ registry.added < MaxEntries
    /\ IF productId \in registry.products
       THEN /\ registry' =
                  [registry EXCEPT
                      !.entries = Append(@, [id |-> registry.added + 1,
                                             date |-> date, type |-> type,
                                             productId |-> productId]),
                      !.added = @ + 1]
            /\ called' = Called("addEntry", <<productId, 0>>, "none")
       ELSE /\ called' = Called("addEntry", <<productId, 0>>, "NotFoundError")
            /\ UNCHANGED registry
    /\ UNCHANGED <<appVars, syncVars, svcVars, panelVars, productVars, locale>>

\* the entries that do not belong to product `id`
RECURSIVE EntriesNotOf(_, _)
EntriesNotOf(entries, id) ==
    IF entries = <<>> THEN <<>>
    ELSE (IF Head(entries).productId # id THEN <<Head(entries)>> ELSE <<>>)
         \o EntriesNotOf(Tail(entries), id)

deleteProductKeepsEntries(id) ==
    /\ registry' = [registry EXCEPT !.products = @ \ {id}]
    /\ called' = Called("deleteProduct", <<id, 0>>, "none")
    /\ UNCHANGED <<appVars, syncVars, svcVars, panelVars, productVars, locale>>

\* deleteProduct: the product goes with all its entries; a no-op for an id
\* that does not exist
deleteProduct(id) ==
    /\ registry' = [registry EXCEPT !.products = @ \ {id},
                                    !.entries = EntriesNotOf(@, id)]
    /\ called' = Called("deleteProduct", <<id, 0>>, "none")
    /\ UNCHANGED <<appVars, syncVars, svcVars, panelVars, productVars, locale>>

\* flatten: one row per entry with its productId, most recent first
RECURSIVE flattenRows(_)
flattenRows(entries) ==
    IF entries = <<>> THEN <<>>
    ELSE LET rest == flattenRows(SubSeq(entries, 1, Len(entries) - 1))
             e == entries[Len(entries)]
             before == SelectSeq(rest, LAMBDA r : r.date >= e.date)
             after == SelectSeq(rest, LAMBDA r : r.date < e.date)
         IN before \o <<e>> \o after

flatten == flattenRows(registry.entries)

\* no handler has been called, the registry is empty
InitExtra(loc) ==
    /\ locale = loc
    /\ called = Called("none", <<"none", 0>>, "none")
    /\ registry = [products |-> {}, issued |-> {}, entries |-> <<>>, added |-> 0]

\* the parts of the initial state outside the tracker and the mirror, the
\* page running under `loc`
InitOtherIn(loc) ==
    /\ InitServiceResults
    /\ InitPanel
    /\ InitProductModal
    /\ InitExtra(loc)

InitOther == InitOtherIn("en-US")

Next ==
    \/ Tick
    \/ OpenSaleModal
    \/ OpenExpenseModal
    \/ OpenSettingsModal
    \/ \E item \in combinedLog : setEditingLog(item)
    \/ CloseModal
    \/ \E q \in QuantityInputs : SaleModalSubmit(q)
    \/ \E d \in DescriptionInputs, a \in AmountInputs : ExpenseModalSubmit(d, a)
    \/ \E i \in InvestmentInputs, c \in CostInputs, p \in PriceInputs :
          SettingsSave(TypedSettings(i, c, p))
    \/ \E d \in DateStrings, q \in QuantityInputs :
          /\ editingLog.type = "sale"
          /\ EditLogSubmit(d, editingLog.description, q, "")
    \/ \E d \in DateStrings, s \in DescriptionInputs, a \in AmountInputs :
          /\ editingLog.type = "expense"
          /\ EditLogSubmit(d, s, "1", a)
    \/ \E item \in combinedLog, c \in BOOLEAN : DeleteClicked(item, c)

\* the tracker, with the mirror left unconfigured and idle
Init ==
    /\ InitService("", "")
    /\ InitApp
    /\ InitOther

Spec == Init /\ [][Next]_vars

SyncNext ==
    \/ \E c \in Calls, entries \in EntryLists : StartSync(c, entries)
    \/ \E c \in Calls, o \in Outcomes : ClearSheet(c, o)
    \/ \E c \in Calls, o \in Outcomes : AppendHeaders(c, o)
    \/ \E c \in Calls, o \in Outcomes : AppendRows(c, o)
    \/ \E c \in Calls : Return(c)
    \/ Crash

\* the mirror, with the tracker left alone
SyncInit ==
    \E key \in ApiKeys, id \in SpreadsheetIds :
        /\ InitService(key, id)
        /\ InitApp
        /\ InitOther

SyncSpec == SyncInit /\ [][SyncNext]_vars

\* the service's operations, called one after the other by some caller, on a
\* spreadsheet that already holds rows
ServiceNext ==
    \/ \E o1 \in Outcomes, o2 \in Outcomes : initializeSpreadsheet(o1, o2)
    \/ \E o \in Outcomes : addLogEntry(SaleEntry, o)
    \/ \E o \in Outcomes : readAllData(o)
    \/ \E o \in Outcomes : testConnection(o)
    \/ \E entries \in {<<>>, <<ExpenseEntry>>} : StartSync("A", entries)
    \/ \E o \in Outcomes : ClearSheet("A", o)
    \/ \E o \in Outcomes : AppendHeaders("A", o)
    \/ \E o \in Outcomes : AppendRows("A", o)
    \/ Return("A")

ServiceInit ==
    \E key \in ApiKeys, id \in SpreadsheetIds, sheet \in Sheets :
        /\ InitServiceOn(key, id, sheet)
        /\ InitApp
        /\ InitOther

ServiceSpec == ServiceInit /\ [][ServiceNext]_vars

\* the settings panel's export button driving the mirror
PanelNext ==
    \/ \E c \in Calls, entries \in EntryLists : handleSyncAllData(c, entries)
    \/ \E c \in Calls, o \in Outcomes : ClearSheet(c, o)
    \/ \E c \in Calls, o \in Outcomes : AppendHeaders(c, o)
    \/ \E c \in Calls, o \in Outcomes : AppendRows(c, o)
    \/ \E c \in Calls : handleSyncAllDataResumes(c)

PanelInit ==
    \E key \in ApiKeys, id \in SpreadsheetIds :
        /\ InitService(key, id)
        /\ InitApp
        /\ InitOther

PanelSpec == PanelInit /\ [][PanelNext]_vars

\* the product form being filled in and submitted
ProductNext ==
    \/ \E v \in NameInputs : ProductModal_handleChange("name", v)
    \/ \E v \in ProductDescriptionInputs : ProductModal_handleChange("description", v)
    \/ \E v \in ProductInvestmentInputs :
          ProductModal_handleChange("initialInvestment", parseFloatOrZero(v))
    \/ \E v \in UnitCostInputs :
          ProductModal_handleChange("unitCost", parseFloatOrZero(v))
    \/ \E v \in SellingPriceInputs :
          ProductModal_handleChange("sellingPrice", parseFloatOrZero(v))
    \/ \E v \in InitialUnitsInputs :
          ProductModal_handleChange("initialUnits", parseIntOrZero(v))
    \/ ProductModal_handleSubmit
    \/ ProductModal_open

ProductSpec == Init /\ [][ProductNext]_vars

\* the handlers that change an entry by id, called with any item on a ledger
\* recorded earlier
HandlerNext ==
    \/ \E item \in HeldItems : handleUpdateLog(item)
    \/ \E item \in HeldItems, c \in BOOLEAN :
          /\ handleDeleteLog(item, c)
          /\ called' = Called("handleDeleteLog", item.id, "none")

HandlerInit ==
    \E sales \in HeldSales, costs \in HeldExpenses :
        /\ InitService("", "")
        /\ InitAppHolding(sales, costs)
        /\ InitOther

HandlerSpec == HandlerInit /\ [][HandlerNext]_vars

\* the mirror driven from the settings panel and by the service's other
\* operations while the tracker holds a ledger, under either locale
MirrorNext ==
    \/ \E entries \in EntryLists : handleSyncAllData("A", entries)
    \/ \E o \in Outcomes : ClearSheet("A", o)
    \/ \E o \in Outcomes : AppendHeaders("A", o)
    \/ \E o \in Outcomes : AppendRows("A", o)
    \/ handleSyncAllDataResumes("A")
    \/ \E o \in Outcomes : readAllData(o)
    \/ \E o \in Outcomes : testConnection(o)
    \/ \E o \in Outcomes : addLogEntry(SaleEntry, o)

MirrorInit ==
    \E key \in {"", "key"}, loc \in Locales :
        /\ InitService(key, "sheet")
        /\ InitAppHolding(<<RecordedSale(1, 2)>>, <<RecordedExpense(1, 100)>>)
        /\ InitOtherIn(loc)

MirrorSpec == MirrorInit /\ [][MirrorNext]_vars

\* products created and deleted and entries added to them
RegistryNext ==
    \/ \E id \in ProductIds : createProduct(id)
    \/ \E id \in ProductIds : deleteProduct(id)
    \/ \E id \in ProductIds, type \in {"sale", "expense"}, date \in 1..MaxClock :
          addEntry(id, type, date)

RegistrySpec == Init /\ [][RegistryNext]_vars

\* ------------------------------------------------------------ properties
\* the rows a full replacement by call c leaves
Expected(c) == <<headers>> \o RowsOf(allEntries[c])

IsPrefix(s, u) == Len(s) <= Len(u) /\ s = SubSeq(u, 1, Len(s))

Finished(c) == pc[c] = "done"

\* C1: two overlapping syncAllData calls whose remote calls all succeeded have
\* both returned: the remote store is the header row followed by the rows of
\* the call that returned last, with no row of the other call and no second
\* header.
C1_LastFinishedWins ==
    ( /\ \A c \in Calls : Finished(c) /\ overlapped[c] /\ ~failed[c]
                          /\ result[c] = "success"
      /\ lastFinished \in Calls )
    => remote = Expected(lastFinished)

\* C2: a syncAllData call that ran with no other call in flight has returned
\* success and nothing was started since: the remote store is exactly the
\* header row followed by one row per input entry, in input order.
C2_SuccessIsFullReplace ==
    \A c \in Calls :
        (Finished(c) /\ result[c] = "success" /\ ~overlapped[c] /\ lastStarted = c)
        => remote = Expected(c)

\* C3: a syncAllData call that ran alone was cut short by a crash, or one of
\* its remote calls failed: the remote store is empty or a prefix of (header,
\* new rows), or still untouched; it never holds rows from before the call
\* together with new ones, nor rows written without the clear having taken
\* effect.
C3_InterruptedLeavesPrefix ==
    \A c \in Calls :
        ( /\ ~overlapped[c] /\ lastStarted = c
          /\ \/ pc[c] = "crashed"
             \/ Finished(c) /\ failed[c] )
        => \/ IsPrefix(remote, Expected(c))
           \/ remote = remoteAtStart[c]

\* C4: two consecutive syncAllData calls with the same entry list have both
\* returned success: the remote store after the second is what it was after
\* the first.
C4_Idempotent ==
    ( /\ \A c \in Calls : Finished(c) /\ result[c] = "success" /\ ~overlapped[c]
      /\ allEntries["A"] = allEntries["B"] )
    => remoteAtReturn["A"] = remoteAtReturn["B"]

\* C5: a syncAllData call in which a remote call failed (the clear, the header
\* write or the row write) returns a failure result, never success.
C5_FailureIsReported ==
    \A c \in Calls :
        (pc[c] \in {"ret", "done"} /\ failed[c]) => result[c] = "failure"

\* C6: the sale form is submitted with a quantity greater than the current
\* inventory: the sale is rejected with an error and the ledger (sales and
\* expenses, count and contents) is unchanged.
C6_OversellRejected ==
    [][\A q \in QuantityInputs :
          ( /\ SaleModalSubmit(q)
            /\ ~parsesToNaN(q)
            /\ parseNumber(q) > inventory )
          => /\ transactions' = transactions
             /\ expenses' = expenses
             /\ error' # ""
             /\ showSaleModal']_vars

C6_Witness ==
    /\ showSaleModal
    /\ error = "Not enough inventory."
    /\ Len(transactions) >= 1
    /\ inventory >= 1

\* C7: in every state the derived netProfit is totalRevenue - cogs -
\* totalExpenses - initialInvestment, the investment subtracted exactly once.
C7_NetProfitFormula ==
    netProfit = totalSales - cogs - totalExpenses - settings.initialInvestment

C7_Witness ==
    /\ Len(transactions) >= 2
    /\ Len(expenses) >= 1
    /\ settings.initialInvestment > 0
    /\ settings.watchCost > 0

C9_EditUsesCurrentPrice ==
    [][\A d \in DateStrings, q \in QuantityInputs :
          ( /\ editingLog.type = "sale"
            /\ EditLogSubmit(d, editingLog.description, q, "")
            /\ editingLog' = null )
          => /\ \E i \in DOMAIN transactions' : transactions'[i].id = editingLog.id
             /\ \A i \in DOMAIN transactions' :
                   transactions'[i].id = editingLog.id
                   => /\ transactions'[i].quantity = parseNumber(q)
                      /\ transactions'[i].amount
                            = parseNumber(q) * settings.watchPrice]_vars

\* an edit has just re-priced a sale whose amount had been computed at another
\* selling price
C9_Witness ==
    /\ lastEdit.type = "sale"
    /\ lastEdit.amount # lastEdit.quantity * settings.watchPrice
    /\ \E i \in DOMAIN transactions :
          /\ transactions[i].id = lastEdit.id
          /\ transactions[i].quantity # lastEdit.quantity
          /\ transactions[i].amount = transactions[i].quantity * settings.watchPrice

\* C10: saving the settings leaves the stored sales and expenses as they are;
\* no sale's amount is recomputed at the new selling price.
C10_SettingsSaveKeepsLedger ==
    [][(\E i \in InvestmentInputs, c \in CostInputs, p \in PriceInputs :
            SettingsSave(TypedSettings(i, c, p)))
       => /\ transactions' = transactions
          /\ expenses' = expenses]_vars

\* the settings were saved with another price after a sale was recorded
C10_Witness ==
    /\ NoModal
    /\ Len(expenses) >= 1
    /\ \E i \in DOMAIN transactions :
          transactions[i].amount # transactions[i].quantity * settings.watchPrice

\* C11: readAllData reads rows of which one has a Date cell that cannot be
\* parsed: it does not throw, and it returns one entry per data row, the entry
\* of the unparseable row with a valid timestamp, the others as their rows say.
C11_BadDateRowImported ==
    [][\A o \in Outcomes :
          ( /\ readAllData(o)
            /\ isConfigured /\ o = "ok"
            /\ \E i \in 2..Len(remote) : isInvalidDate(remote[i][2]) )
          => LET value == returned'.entries IN
             /\ Len(value) = Len(remote) - 1
             /\ \A i \in DOMAIN value :
                   /\ value[i].id = remote[i + 1][1]
                   /\ value[i].date \in 0..MaxClock
                   /\ ~isInvalidDate(remote[i + 1][2])
                         => value[i] = rowToEntry(remote[i + 1], i)]_vars

\* the result every operation gives when the service is not configured:
\* false, [], or {success: false, message: 'Google Sheets not configured...'}
NotConfiguredResult(op) ==
    Returns(op, FALSE,
            IF op = "testConnection" THEN NotConfiguredMessage ELSE "", <<>>, 0)

\* C12: the API key or the spreadsheet id is empty or its placeholder: no
\* operation sends a request (the spreadsheet stays as it is, no syncAllData
\* call gets as far as its first request), and each returns its
\* not-configured result.
C12_NotConfiguredIsSilent ==
    [][( \/ apiKey \in {"", PLACEHOLDER_GOOGLE_SHEETS_API_KEY}
         \/ spreadsheetId \in {"", PLACEHOLDER_SPREADSHEET_ID} )
       => /\ remote' = remote
          /\ \A c \in Calls :
                /\ pc'[c] \in {"idle", "done"}
                /\ pc'[c] = "done" => result'[c] = "failure"
          /\ returned' = NotConfiguredResult(returned'.op)]_vars

\* the placeholder id is in place, syncAllData and another operation have
\* been called
C12_Witness ==
    /\ apiKey = "key"
    /\ spreadsheetId = PLACEHOLDER_SPREADSHEET_ID
    /\ remote # <<>>
    /\ pc["A"] = "done"
    /\ returned.op = "initializeSpreadsheet"

\* C13: testConnection leaves the rows of the spreadsheet as they are, whatever
\* the outcome of its request and whether or not the service is configured.
C13_TestConnectionReadOnly ==
    [][(\E o \in Outcomes : testConnection(o)) => remote' = remote]_vars

\* a configured service has tested its connection to a spreadsheet with rows,
\* with success
C13_Witness ==
    /\ isConfigured
    /\ remote # <<>>
    /\ returned.op = "testConnection"
    /\ returned.success

\* C14: a sync attempt started from the settings panel is in progress until
\* its syncAllData call has returned and then stops in exactly one outcome:
\* the in-progress flag is cleared, no call is left in flight or started anew,
\* a call that returned failure shows as a failed status with a message, and a
\* call that returned success as a success.
C14_AttemptEndsInOutcome ==
    /\ isSyncing => attempt \in Calls /\ InFlight(attempt)
    /\ (~isSyncing /\ attempt \in Calls)
          => /\ pc[attempt] = "done"
             /\ \A c \in Calls : ~InFlight(c)
             /\ result[attempt] = "failure"
                   => ~connectionStatus.success /\ connectionStatus.message # ""
             /\ result[attempt] = "success" => connectionStatus.success

\* C15: in every state the entries of the ledger, sales and expenses
\* together, have pairwise distinct ids.
C15_IdsDistinct ==
    LET log == transactions \o expenses IN
    \A i \in DOMAIN log, j \in DOMAIN log : i # j => log[i].id # log[j].id

\* C16: whenever the initial investment is 0, roi is 0 whatever the ledger
\* holds; whenever it is positive, roi is netProfit / initialInvestment * 100.
C16_RoiGuarded ==
    /\ settings.initialInvestment = 0 => roi.num = 0
    /\ settings.initialInvestment > 0
          => roi.num * settings.initialInvestment = netProfit * 100 * roi.den

\* the investment is 0 with sales and an expense on record and a profit that
\* is not 0
C16_Witness ==
    /\ settings.initialInvestment = 0
    /\ Len(transactions) >= 1
    /\ Len(expenses) >= 1
    /\ netProfit # 0

\* C17: with unit cost 30, selling price 600 and investment 1800 (60 initial
\* units), a sale of 2 is recorded with amount 1200, and once the ledger holds
\* that sale and one expense of 100 the figures are unitsSold 2, inventory 58,
\* totalRevenue 1200, cogs 60, grossProfit 1140, netProfit -760 and roi
\* -760 / 1800 * 100.
C17_Scenario ==
    [][/\ ( /\ settings = [initialInvestment |-> 1800, watchCost |-> 30,
                           watchPrice |-> 600]
            /\ SaleModalSubmit("2")
            /\ Len(transactions') = Len(transactions) + 1 )
          => transactions'[Len(transactions')].amount = 1200
       /\ ( /\ settings' = [initialInvestment |-> 1800, watchCost |-> 30,
                            watchPrice |-> 600]
            /\ Len(transactions') = 1
            /\ transactions'[1].quantity = 2
            /\ transactions'[1].amount = 1200
            /\ Len(expenses') = 1
            /\ expenses'[1].amount = 100 )
          => /\ initialWatches' = 60
             /\ watchesSold' = 2
             /\ inventory' = 58
             /\ totalSales' = 1200
             /\ totalExpenses' = 100
             /\ cogs' = 60
             /\ grossProfit' = 1140
             /\ netProfit' = -760
             /\ roi'.num * 1800 = (-760) * 100 * roi'.den]_vars

C17_Witness ==
    /\ settings = [initialInvestment |-> 1800, watchCost |-> 30, watchPrice |-> 600]
    /\ Len(transactions) = 1
    /\ transactions[1].quantity = 2
    /\ transactions[1].amount = 1200
    /\ Len(expenses) = 1
    /\ expenses[1].amount = 100
    /\ netProfit = -760

\* C18: in every state cogs is the units sold times the unit cost of the
\* settings as they are now, grossProfit is the revenue less that, and the
\* profit series ends at the profit computed with that cost, whatever the
\* cost was when the sales were recorded.
C18_CogsAtCurrentCost ==
    /\ cogs = SumQuantity(transactions) * settings.watchCost
    /\ grossProfit = totalSales - SumQuantity(transactions) * settings.watchCost
    /\ chartData[Len(chartData)].Profit
          = totalSales - SumQuantity(transactions) * settings.watchCost
            - totalExpenses - settings.initialInvestment

\* C19: in every state inventory is the initial units less the sum of the
\* quantities of all sales, negative when more was sold than there was.
C19_InventoryUnclamped ==
    inventory = initialWatches - SumQuantity(transactions)

\* the fields the claim's rules find violated
C20_Violated(atLeast) ==
    {f \in Fields :
        \/ f = "name" /\ formData.name = ""
        \/ f = "description" /\ formData.description = ""
        \/ f = "initialInvestment" /\ formData.initialInvestment < atLeast
        \/ f = "unitCost" /\ formData.unitCost <= 0
        \/ f = "sellingPrice" /\ formData.sellingPrice <= formData.unitCost
        \/ f = "initialUnits" /\ formData.initialUnits <= 0}

C20_ViolatedAmended ==
    C20_Violated(1)
    \cup {f \in {"name", "description"} : trim(formData[f]) = ""}

C21_AbsentIdIsNotFound ==
    [][\A item \in HeldItems :
          ( /\ handleUpdateLog(item) \/ handleDeleteLog(item, TRUE)
            /\ \A e \in combinedLog : e.id # item.id )
          => /\ called'.threw = "NotFoundError"
             /\ transactions' = transactions
             /\ expenses' = expenses]_vars

\* C22: no step of the mirror (syncAllData from the panel and its requests,
\* addLogEntry, readAllData, testConnection), whatever its outcome, changes
\* the local sales, expenses or settings.
C22_MirrorLeavesLedger ==
    [][/\ transactions' = transactions
       /\ expenses' = expenses
       /\ settings' = settings]_vars

\* a sync has returned failure and a read has returned entries other than
\* the ledger's, with the ledger as it was
C22_Witness ==
    /\ pc["A"] = "done"
    /\ result["A"] = "failure"
    /\ returned.op = "readAllData"
    /\ returned.entries # <<>>
    /\ transactions = <<RecordedSale(1, 2)>>
    /\ expenses = <<RecordedExpense(1, 100)>>

\* C23: in every state every entry of the registry, and every row of
\* flatten, has the productId of an existing product; after a product is
\* deleted none of its entries is left.
C23_NoDanglingEntries ==
    /\ \A i \in DOMAIN registry.entries :
          registry.entries[i].productId \in registry.products
    /\ Len(flatten) = Len(registry.entries)
    /\ \A i \in DOMAIN flatten : flatten[i].productId \in registry.products

\* a product that had entries was deleted while another product keeps its
\* entries
C23_Witness ==
    /\ registry.issued \ registry.products # {}
    /\ registry.added > Len(registry.entries)
    /\ Len(registry.entries) >= 1

\* C24: the series follows the entries in ascending date order, and of two
\* entries with equal dates, sales or expenses, the one recorded at the
\* earlier clock value comes first.
C24_TiesInInsertionOrder ==
    LET log == chronologicalLog IN
    /\ \A i \in DOMAIN log : chartData[i + 1].name = log[i].date
    /\ \A i \in DOMAIN log, j \in DOMAIN log :
          i < j => /\ log[i].date <= log[j].date
                   /\ log[i].date = log[j].date => log[i].id[2] <= log[j].id[2]

\* C25: readAllData reads a sheet that holds the header and one
\* logEntryToRow row per entry of a list: it returns as many entries, in the
\* same order, each with the id, type, amount, description, productId and
\* productName of its entry and, for a sale, its quantity; the row of an
\* expense has an empty Quantity cell.
C25_ReadInvertsExport ==
    [][\A o \in Outcomes, entries \in EntryLists :
          ( /\ readAllData(o)
            /\ isConfigured /\ o = "ok"
            /\ remote = <<headers>> \o RowsOf(entries) )
          => LET value == returned'.entries IN
             /\ Len(value) = Len(entries)
             /\ \A i \in DOMAIN value :
                   /\ value[i].id = entries[i].id
                   /\ value[i].type = entries[i].type
                   /\ value[i].amount = entries[i].amount
                   /\ value[i].description = entries[i].description
                   /\ value[i].productId = entries[i].productId
                   /\ value[i].productName = entries[i].productName
                   /\ entries[i].type = "sale"
                         => value[i].quantity = entries[i].quantity
                   /\ entries[i].type = "expense" => remote[i + 1][5] = ""]_vars

\* C26: in every state the units sold do not exceed the initial units:
\* inventory >= 0.
C26_InventoryNeverNegative ==
    inventory >= 0

\* C27: in every state the first point of the series is the origin (Sales 0,
\* Profit -initialInvestment) and the Profit of its last point is netProfit.
C27_SeriesEndsAtNetProfit ==
    /\ chartData[1].Sales = 0
    /\ chartData[1].Profit = -settings.initialInvestment
    /\ chartData[Len(chartData)].Profit = netProfit

\* C28: an edit is saved: the sales and the expenses are as many as before,
\* one entry, the edited one, keeps its id and type, and every other entry is
\* as it was.
C28_EditChangesOneEntry ==
    [][( /\ \/ \E d \in DateStrings, q \in QuantityInputs :
                  /\ editingLog.type = "sale"
                  /\ EditLogSubmit(d, editingLog.description, q, "")
            \/ \E d \in DateStrings, s \in DescriptionInputs, a \in AmountInputs :
                  /\ editingLog.type = "expense"
                  /\ EditLogSubmit(d, s, "1", a)
         /\ editingLog' = null )
          => LET before == transactions \o expenses
                 after == transactions' \o expenses'
             IN /\ Len(transactions') = Len(transactions)
                /\ Len(expenses') = Len(expenses)
                /\ \E i \in DOMAIN before :
                      /\ before[i] = editingLog
                      /\ after[i].id = editingLog.id
                      /\ after[i].type = editingLog.type
                      /\ \A j \in DOMAIN before \ {i} : after[j] = before[j]]_vars

\* C29: the entry added last to the sales (or to the expenses) is deleted:
\* the sales and expenses are what they were before it was added, the list
\* without its last entry and the other list, and the settings are
\* unchanged, so that every derived figure is what it was.
C29_DeleteUndoesAdd ==
    [][\A item \in combinedLog :
          handleDeleteLog(item, TRUE)
          => /\ settings' = settings
             /\ ( /\ item.type = "sale"
                   /\ transactions[Len(transactions)] = item )
                => /\ transactions' = SubSeq(transactions, 1, Len(transactions) - 1)
                   /\ expenses' = expenses
                   /\ watchesSold' = watchesSold -
                          (IF settings.watchCost <= 0 THEN 0 ELSE item.quantity)
                   /\ totalSales' = totalSales - item.amount
             /\ ( /\ item.type = "expense"
                   /\ expenses[Len(expenses)] = item )
                => /\ expenses' = SubSeq(expenses, 1, Len(expenses) - 1)
                   /\ transactions' = transactions
                   /\ totalExpenses' = totalExpenses - item.amount]_vars

\* C30: the form was opened on the stored product and is submitted with no
\* field changed: onSave gets a configuration with the stored
\* initialInvestment, unitCost, sellingPrice and initialUnits.
C30_UnchangedSaveKeepsProduct ==
    [][( /\ ProductModal_handleSubmit
         /\ saved # null
         /\ formData = useStateFormData(saved) )
       => \A f \in {"initialInvestment", "unitCost", "sellingPrice", "initialUnits"} :
             saved'[f] = saved[f]]_vars

====
